---- MODULE Spec2Model ----
(***************************************************************************)
(* Model of src/server.py: the marathon crawler MCP server.                *)
(*                                                                         *)
(* One asyncio event loop runs the tool handlers.  A handler runs without  *)
(* interruption between two awaits, so every action below is the code      *)
(* between two suspension points of one coroutine.  The suspension points  *)
(* are the listing GET (line 84), the gate acquire (line 105), the detail  *)
(* GET (line 26) and the gather (line 110).                                *)
(*                                                                         *)
(* Python values: None is the empty tuple and a present value x is <<x>>;  *)
(* a str is a TLA+ string whose characters CharsOf gives as code points;   *)
(* a list is a sequence; a dict is a record with the keys the handlers     *)
(* read (name, tracks, region, date, app_end, url stand for the keys       *)
(* written in Korean in the source; the other keys are copied and never    *)
(* read).  datetime.now() is the variable clock, in seconds.               *)
(***************************************************************************)
EXTENDS Integers, Sequences, FiniteSets, TLC

\* ------------------------------------------------------------ bounds
NumCalls == 2        \* tool calls the event loop serves, each in its own task
MaxLinks == 1        \* anchors on the listing page, queries
MaxCrawlLinks == 3   \* anchors on the listing page, a direct crawl call
MaxGate == 2         \* largest max_concurrent a direct crawl call is given
MaxTicks == 1        \* the clock stops after MaxTicks * ttl seconds
MaxCached == 3       \* records in a cache the queries are answered from

\* ------------------------------------------------------------ Python values
None == <<>>
Some(x) == <<x>>
IsNone(o) == o = <<>>
Val(o) == o[1]

Tasks == 1..NumCalls

\* ------------------------------------------------------------ strings
\* The code points of the strings the model uses ('-' is 45, '0' is 48).
CharsOf(s) ==
  CASE s = "" -> <<>>
    [] s = "2025-11-05" -> <<50, 48, 50, 53, 45, 49, 49, 45, 48, 53>>
    [] s = "2025-11-10" -> <<50, 48, 50, 53, 45, 49, 49, 45, 49, 48>>
    [] s = "2025-01-01" -> <<50, 48, 50, 53, 45, 48, 49, 45, 48, 49>>
    [] s = "2025-11-01" -> <<50, 48, 50, 53, 45, 49, 49, 45, 48, 49>>
    [] s = "2025-11-08" -> <<50, 48, 50, 53, 45, 49, 49, 45, 48, 56>>
    [] s = "2025-11" -> <<50, 48, 50, 53, 45, 49, 49>>
    [] s = "9999-99-99" -> <<57, 57, 57, 57, 45, 57, 57, 45, 57, 57>>
    [] s = "soon" -> <<115, 111, 111, 110>>
    [] s = "Seoul" -> <<83, 101, 111, 117, 108>>
    [] s = "Busan" -> <<66, 117, 115, 97, 110>>
    [] s = "Seoul Night Run" ->
         <<83, 101, 111, 117, 108, 32, 78, 105, 103, 104, 116, 32, 82, 117, 110>>
    [] s = "Busan Half" -> <<66, 117, 115, 97, 110, 32, 72, 97, 108, 102>>
    [] s = "RUN" -> <<82, 85, 78>>
    [] s = "10km,5km" -> <<49, 48, 107, 109, 44, 53, 107, 109>>
    [] s = "10km" -> <<49, 48, 107, 109>>
    [] s = "5km" -> <<53, 107, 109>>
    [] s = "10KM" -> <<49, 48, 75, 77>>

\* Python's str < str: lexicographic by code point.
RECURSIVE SeqLess(_, _)
SeqLess(a, b) ==
  IF b = <<>> THEN FALSE
  ELSE IF a = <<>> THEN TRUE
  ELSE IF a[1] # b[1] THEN a[1] < b[1]
  ELSE SeqLess(Tail(a), Tail(b))

\* Every string the model uses.
Strings ==
  {"", "2025-11-05", "2025-11-10", "2025-01-01", "2025-11-01", "2025-11-08",
   "2025-11", "9999-99-99", "soon",
   "Seoul", "Busan", "Seoul Night Run", "Busan Half", "RUN", "10km,5km", "10km",
   "5km", "10KM"}

\* The comparisons below are evaluated once, over Strings, and looked up after.
GreaterThan == [s \in Strings |-> {t \in Strings : SeqLess(CharsOf(s), CharsOf(t))}]
StrLess(s, t) == t \in GreaterThan[s]

\* Python's `sub in s` for str, on code points.
ContainsChars(cs, cu) ==
  \E i \in 0..(Len(cs) - Len(cu)) :
    \A j \in 1..Len(cu) : cs[i + j] = cu[j]

SubstringsOf ==
  [s \in Strings |-> {sub \in Strings : ContainsChars(CharsOf(s), CharsOf(sub))}]
Contains(s, sub) == sub \in SubstringsOf[s]

\* str.lower() on code points ('A'..'Z' are 65..90).
LowerChars(cs) ==
  [i \in 1..Len(cs) |-> IF cs[i] >= 65 /\ cs[i] <= 90 THEN cs[i] + 32 ELSE cs[i]]

\* sub.lower() in s.lower()
LowerSubstringsOf ==
  [s \in Strings |->
     {sub \in Strings : ContainsChars(LowerChars(CharsOf(s)), LowerChars(CharsOf(sub)))}]
ContainsLower(s, sub) == sub \in LowerSubstringsOf[s]

\* str.split(',') of the raceTypeList values the site serves.
SplitComma(s) ==
  CASE s = "10km,5km" -> <<"10km", "5km">>
    [] s = "10km" -> <<"10km">>
    [] s = "5km" -> <<"5km">>

\* ------------------------------------------------------------ the site
\* The hrefs of the anchors of class MuiLink-root on the listing page.
DetailHrefs == {"/raceDetail/1", "/raceDetail/2", "/raceDetail/3"}
QueryHrefs == {"", "/about", "/raceDetail/1", "/raceDetail/2"}
CrawlHrefs == {"", "/about"} \cup DetailHrefs

\* '/raceDetail/' in href
IsRaceDetail(href) == href \in DetailHrefs

RECURSIVE SeqsUpTo(_, _)
SeqsUpTo(S, n) ==
  IF n = 0 THEN {<<>>}
  ELSE LET shorter == SeqsUpTo(S, n - 1)
       IN shorter \cup {Append(s, x) : s \in {q \in shorter : Len(q) = n - 1}, x \in S}

\* The raceDetail payloads a detail page may carry.
Payloads ==
  { [raceName |-> "Seoul Night Run", raceTypeList |-> "10km,5km",
     region |-> "Seoul", raceDate |-> "2025-11-10",
     applicationEndDate |-> "2025-11-05"],
    [raceName |-> "Busan Half", raceTypeList |-> "",
     region |-> "Busan", raceDate |-> "2025-11-05",
     applicationEndDate |-> ""] }

\* The payloads behind the records of a cache that queries are answered from:
\* event dates before, on and after today and the end of a 7-day window, empty
\* and unparsable ones, and the same for the end of the application period.
CachedPayloads ==
  Payloads \cup
  { [raceName |-> "RUN", raceTypeList |-> "10km",
     region |-> "Seoul", raceDate |-> "",
     applicationEndDate |-> "2025-11-01"],
    [raceName |-> "Busan Half", raceTypeList |-> "5km",
     region |-> "Busan", raceDate |-> "2025-11-08",
     applicationEndDate |-> "2025-01-01"],
    [raceName |-> "Seoul Night Run", raceTypeList |-> "",
     region |-> "Seoul", raceDate |-> "2025-11-01",
     applicationEndDate |-> "soon"],
    [raceName |-> "RUN", raceTypeList |-> "5km",
     region |-> "Busan", raceDate |-> "soon",
     applicationEndDate |-> "2025-11-10"] }

\* What can go wrong with one GET or with the page it returns.
ListingFailures == {"http_status", "network", "timeout"}
DetailFailures ==
  {"http_status", "network", "timeout", "no_script", "bad_json", "no_race_detail"}

\* ------------------------------------------------------------ dates
ttl == 3600
SecondsPerDay == 24 * 60 * 60

IsDigit(c) == c >= 48 /\ c <= 57

RECURSIVE DigitsValue(_)
DigitsValue(cs) ==
  IF cs = <<>> THEN 0
  ELSE 10 * DigitsValue(SubSeq(cs, 1, Len(cs) - 1)) + (cs[Len(cs)] - 48)

IsLeap(y) == (y % 4 = 0 /\ y % 100 # 0) \/ y % 400 = 0

DaysInMonth(y, m) ==
  IF m = 2 THEN (IF IsLeap(y) THEN 29 ELSE 28)
  ELSE IF m \in {4, 6, 9, 11} THEN 30 ELSE 31

\* The proleptic Gregorian day number of y-m-d (day 0 is 1970-01-01), so that
\* the difference of two of them is (a - b).days.
DayNumber(y, m, d) ==
  LET yy == IF m <= 2 THEN y - 1 ELSE y
      era == yy \div 400
      yoe == yy - era * 400
      mp == IF m > 2 THEN m - 3 ELSE m + 9
      doy == (153 * mp + 2) \div 5 + d - 1
      doe == yoe * 365 + yoe \div 4 - yoe \div 100 + doy
  IN era * 146097 + doe - 719468

\* datetime.strptime(s, '%Y-%m-%d') on code points: the day number, or None where strptime
\* raises ValueError.  %Y is four digits, %m and %d one or two.
strptime(cs) ==
  LET dashes == {i \in 1..Len(cs) : cs[i] = 45}
  IN IF Cardinality(dashes) # 2 \/ \E i \in 1..Len(cs) : ~IsDigit(cs[i]) /\ cs[i] # 45
     THEN None
     ELSE LET d1 == CHOOSE i \in dashes : \A j \in dashes : i <= j
              d2 == CHOOSE i \in dashes : \A j \in dashes : i >= j
              ys == SubSeq(cs, 1, d1 - 1)
              ms == SubSeq(cs, d1 + 1, d2 - 1)
              ds == SubSeq(cs, d2 + 1, Len(cs))
              y == DigitsValue(ys)
              m == DigitsValue(ms)
              d == DigitsValue(ds)
          IN IF Len(ys) = 4 /\ Len(ms) \in {1, 2} /\ Len(ds) \in {1, 2}
                /\ y >= 1 /\ m >= 1 /\ m <= 12 /\ d >= 1 /\ d <= DaysInMonth(y, m)
             THEN Some(DayNumber(y, m, d))
             ELSE None

ParsedDates == [s \in Strings |-> strptime(CharsOf(s))]
ParseDate(s) == ParsedDates[s]

\* The process starts at 00:00:00 of 2025-11-01; clock counts seconds from then.
StartDay == DayNumber(2025, 11, 1)

\* datetime.now().replace(hour=0, minute=0, second=0, microsecond=0), as a day number
Today(now) == StartDay + now \div SecondsPerDay

\* ------------------------------------------------------------ fetch_detail
\* What the GET of one detail page yields: a failure, or the raceDetail payload.
DetailResponses ==
  [kind : DetailFailures, race_detail : {None}]
    \cup [kind : {"ok"}, race_detail : {Some(p) : p \in Payloads}]

fetch_detail(detail_url, response) ==
  IF response.kind = "ok"
  THEN LET race_detail == Val(response.race_detail)
       IN Some([name |-> race_detail.raceName,
                tracks |-> IF race_detail.raceTypeList # ""
                           THEN SplitComma(race_detail.raceTypeList) ELSE <<>>,
                region |-> race_detail.region,
                date |-> race_detail.raceDate,
                app_end |-> race_detail.applicationEndDate,
                url |-> detail_url])
  ELSE None

\* An application period that is over on its last day.
is_accepting_applications_before_end(marathon, now) ==
  LET end_date_str == marathon.app_end
  IN IF end_date_str = "" THEN FALSE
     ELSE LET end_date == ParseDate(end_date_str)
          IN IF IsNone(end_date) THEN FALSE
             ELSE Val(end_date) > Today(now)

is_accepting_applications(marathon, now) ==
  LET end_date_str == marathon.app_end
  IN IF end_date_str = "" THEN FALSE
     ELSE LET end_date == ParseDate(end_date_str)
          IN IF IsNone(end_date) THEN FALSE
             ELSE Val(end_date) >= Today(now)

\* ------------------------------------------------------------ query step
\* [m for m in xs if keep(m)]
Filter(xs, keep(_)) == SelectSeq(xs, keep)

\* list.sort(key=...): stable, ascending; less(a, b) is key(a) < key(b).  The
\* element at index i ends after every element with a smaller key and after every
\* earlier element with an equal key.
SortBy(xs, less(_, _)) ==
  LET n == Len(xs)
      rank(i) ==
        Cardinality({j \in 1..n : less(xs[j], xs[i])
                                    \/ (j < i /\ ~less(xs[i], xs[j]))}) + 1
  IN [r \in 1..n |-> xs[CHOOSE i \in 1..n : rank(i) = r]]

\* key=lambda x: x.get(date key, '9999-99-99'): fetch_detail always sets the key
DateKeyLess(a, b) == StrLess(a.date, b.date)
SortByDate(xs) == SortBy(xs, DateKeyLess)

\* m = marathon.copy(); m[accepting key] = is_accepting_applications(marathon)
WithStatus(marathon, now) ==
  [name |-> marathon.name, tracks |-> marathon.tracks, region |-> marathon.region,
   date |-> marathon.date, app_end |-> marathon.app_end, url |-> marathon.url,
   accepting |-> is_accepting_applications(marathon, now)]

WithDday(marathon, now) ==
  [name |-> marathon.name, tracks |-> marathon.tracks, region |-> marathon.region,
   date |-> marathon.date, app_end |-> marathon.app_end, url |-> marathon.url,
   accepting |-> is_accepting_applications(marathon, now),
   d_day |-> Val(ParseDate(marathon.date)) - Today(now)]

MapSeq(xs, f(_)) == [i \in 1..Len(xs) |-> f(xs[i])]

\* search_marathons, lines 191-204: `filtered = results` is the same list object
\* until a filter rebinds it to a new list.
SearchRebinds(c) == c.region # "" \/ c.date # "" \/ c.only_accepting

SearchFiltered(c, results, now) ==
  LET keepRegion(m) == Contains(m.region, c.region)
      keepDate(m) == Contains(m.date, c.date)
      keepAccepting(m) == is_accepting_applications(m, now)
      f1 == IF c.region # "" THEN Filter(results, keepRegion) ELSE results
      f2 == IF c.date # "" THEN Filter(f1, keepDate) ELSE f1
      f3 == IF c.only_accepting THEN Filter(f2, keepAccepting) ELSE f2
  IN SortByDate(f3)

\* The failure document of search_marathons, lines 184-189.
SearchFailureDoc == [success |-> FALSE, total |-> 0, error |-> TRUE, marathons |-> <<>>]

\* A document whose success flag says that data was obtained.
SearchDoc_success_on_data(c, results, now) ==
  LET status(m) == WithStatus(m, now)
      marathons_with_status == MapSeq(SearchFiltered(c, results, now), status)
  IN [success |-> TRUE,
      total |-> Len(marathons_with_status),
      filters |-> [region |-> IF c.region # "" THEN Some(c.region) ELSE None,
                   date |-> IF c.date # "" THEN Some(c.date) ELSE None,
                   only_accepting |-> c.only_accepting],
      marathons |-> marathons_with_status]

SearchDoc(c, results, now) ==
  LET status(m) == WithStatus(m, now)
      marathons_with_status == MapSeq(SearchFiltered(c, results, now), status)
  IN [success |-> Len(marathons_with_status) > 0,
      total |-> Len(marathons_with_status),
      filters |-> [region |-> IF c.region # "" THEN Some(c.region) ELSE None,
                   date |-> IF c.date # "" THEN Some(c.date) ELSE None,
                   only_accepting |-> c.only_accepting],
      marathons |-> marathons_with_status]

\* get_marathon_by_name, lines 252-279
ByNameDoc(c, results, now) ==
  LET hit(m) == ContainsLower(m.name, c.name)
      matched == Filter(results, hit)
      brief(m) == [name |-> m.name, date |-> m.date]
  IN IF matched = <<>>
     THEN [success |-> FALSE, marathon |-> None]
     ELSE IF Len(matched) > 1
     THEN [success |-> TRUE, total_matches |-> Len(matched),
           marathon |-> Some(WithStatus(matched[1], now)),
           other_matches |-> MapSeq(Tail(matched), brief)]
     ELSE [success |-> TRUE, total_matches |-> Len(matched),
           marathon |-> Some(WithStatus(matched[1], now))]

\* get_upcoming_marathons, lines 308-334
DdayLess(a, b) == a.d_day < b.d_day

\* A window that ends before its last day.
UpcomingDoc_open_end(c, results, now) ==
  LET today == Today(now)
      end_date == today + c.days
      inWindow(m) ==
        /\ m.date # ""
        /\ ~IsNone(ParseDate(m.date))
        /\ today <= Val(ParseDate(m.date))
        /\ Val(ParseDate(m.date)) < end_date
      dday(m) == WithDday(m, now)
      upcoming == SortBy(MapSeq(Filter(results, inWindow), dday), DdayLess)
  IN [success |-> Len(upcoming) > 0, total |-> Len(upcoming),
      period_days |-> c.days, marathons |-> upcoming]

UpcomingDoc(c, results, now) ==
  LET today == Today(now)
      end_date == today + c.days
      inWindow(m) ==
        /\ m.date # ""
        /\ ~IsNone(ParseDate(m.date))
        /\ today <= Val(ParseDate(m.date))
        /\ Val(ParseDate(m.date)) <= end_date
      dday(m) == WithDday(m, now)
      upcoming == SortBy(MapSeq(Filter(results, inWindow), dday), DdayLess)
  IN [success |-> Len(upcoming) > 0, total |-> Len(upcoming),
      period_days |-> c.days, marathons |-> upcoming]

\* get_marathons_by_track, lines 363-380
ByTrackDoc(c, results, now) ==
  LET onTrack(m) == \E i \in 1..Len(m.tracks) : ContainsLower(m.tracks[i], c.track)
      status(m) == WithStatus(m, now)
      matched == SortByDate(MapSeq(Filter(results, onTrack), status))
  IN [success |-> Len(matched) > 0, total |-> Len(matched),
      track_filter |-> c.track, marathons |-> matched]

\* The document a query returns once `results` is bound (the crawl, if any, is over).
QueryDoc(c, results, now) ==
  CASE c.op = "search_marathons" -> SearchDoc(c, results, now)
    [] c.op = "get_marathon_by_name" -> ByNameDoc(c, results, now)
    [] c.op = "get_upcoming_marathons" -> UpcomingDoc(c, results, now)
    [] c.op = "get_marathons_by_track" -> ByTrackDoc(c, results, now)

\* ------------------------------------------------------------ state
VARIABLES
  cache,           \* _cache: [data, timestamp, ttl]
  clock,           \* datetime.now(), seconds since the process started
  pc,              \* per call: "idle", "listing", "gather" or "returned"
  call,            \* per call: the tool and its arguments
  max_concurrent,  \* per call: the argument of crawl_marathons_fast
  marathon_links,  \* per call: the hrefs of the listing page's anchors, in page order
  detail_urls,     \* per call: the de-duplicated candidate hrefs
  fetch,           \* per call: per candidate, [st, result] of fetch_with_semaphore
  semaphore,       \* per call: the free slots of asyncio.Semaphore(max_concurrent)
  results,         \* per call: the list the handler bound to `results`
  doc,             \* per call: the document returned
  source,          \* per call: where `results` came from, "cache" or "crawl"
  requests,        \* per call: the GETs issued so far
  valid_at_call,   \* per call: what is_cache_valid() was when the call arrived
  cleared          \* clear_cache has returned and no query has started since

vars ==
  <<cache, clock, pc, call, max_concurrent, marathon_links, detail_urls, fetch, semaphore,
    results, doc, source, requests, valid_at_call, cleared>>

crawlVars == <<max_concurrent, marathon_links, detail_urls, fetch, semaphore>>

NoCall ==
  [op |-> "none", use_cache |-> TRUE, region |-> "", date |-> "",
   only_accepting |-> FALSE, name |-> "", days |-> 0, track |-> ""]

\* The tool calls a client makes.
QueryCalls ==
  { [NoCall EXCEPT !.op = "search_marathons", !.use_cache = u, !.region = r]
      : u \in BOOLEAN, r \in {"", "Seoul"} }
    \cup { [NoCall EXCEPT !.op = "get_marathon_by_name", !.use_cache = u, !.name = "RUN"]
             : u \in BOOLEAN }
    \cup { [NoCall EXCEPT !.op = "get_upcoming_marathons", !.use_cache = u, !.days = 7]
             : u \in BOOLEAN }
    \cup { [NoCall EXCEPT !.op = "get_marathons_by_track", !.use_cache = u, !.track = "10KM"]
             : u \in BOOLEAN }

\* A call of crawl_marathons_fast itself, outside any query.
CrawlCall == [NoCall EXCEPT !.op = "crawl_marathons_fast"]

\* The listing pages the site may serve to a call, as the hrefs of their anchors.
QueryListings == SeqsUpTo(QueryHrefs, MaxLinks)
CrawlListings == SeqsUpTo(CrawlHrefs, MaxCrawlLinks)
ListingPages(c) == IF c.op = "crawl_marathons_fast" THEN CrawlListings ELSE QueryListings

\* The clock advances in steps that land just before and exactly on the ttl.
TickSteps == {ttl - 1, ttl}
MaxClock == MaxTicks * ttl

EmptyCache == [data |-> None, timestamp |-> None, ttl |-> ttl]

Init ==
  /\ cache = EmptyCache
  /\ clock = 0
  /\ pc = [t \in Tasks |-> "idle"]
  /\ call = [t \in Tasks |-> NoCall]
  /\ max_concurrent = [t \in Tasks |-> 0]
  /\ marathon_links = [t \in Tasks |-> <<>>]
  /\ detail_urls = [t \in Tasks |-> <<>>]
  /\ fetch = [t \in Tasks |-> <<>>]
  /\ semaphore = [t \in Tasks |-> 0]
  /\ results = [t \in Tasks |-> <<>>]
  /\ doc = [t \in Tasks |-> None]
  /\ source = [t \in Tasks |-> "none"]
  /\ requests = [t \in Tasks |-> 0]
  /\ valid_at_call = [t \in Tasks |-> FALSE]
  /\ cleared = FALSE

\* ------------------------------------------------------------ the cache
\* The ttl comparison made inclusive.
is_cache_valid_inclusive(c, now) ==
  IF IsNone(c.data) \/ IsNone(c.timestamp) THEN FALSE
  ELSE now - Val(c.timestamp) <= c.ttl

is_cache_valid(c, now) ==
  IF IsNone(c.data) \/ IsNone(c.timestamp) THEN FALSE
  ELSE now - Val(c.timestamp) < c.ttl

\* The new records added to the cached ones instead of replacing them.
StoreCache_merge(c, rs, now) ==
  [c EXCEPT !.data = IF IsNone(c.data) THEN Some(rs) ELSE Some(Val(c.data) \o rs),
            !.timestamp = Some(now)]

\* lines 181-182 (and 249-250, 305-306, 360-361): no await between the two writes
StoreCache(c, rs, now) == [c EXCEPT !.data = Some(rs), !.timestamp = Some(now)]

\* The two writes without the `if results:` guard.
PutAlways(c, rs, now) == StoreCache(c, rs, now)

\* lines 180-182: `if results:` guards the two writes
PutIfAny(c, rs, now) == IF rs # <<>> THEN StoreCache(c, rs, now) ELSE c

\* line 204: the sort is in place, and `filtered` is the cached list itself
\* unless a filter rebound it.
SortedInPlace(c, q) ==
  IF q.op = "search_marathons" /\ ~SearchRebinds(q)
  THEN [c EXCEPT !.data = Some(SortByDate(Val(c.data)))]
  ELSE c

\* clear_cache forgetting the timestamp.
clear_cache_data_only ==
  /\ cache' = [cache EXCEPT !.data = None]
  /\ cleared' = TRUE
  /\ UNCHANGED <<clock, pc, call, crawlVars, results, doc, source, requests, valid_at_call>>

\* clear_cache putting a fresh dict in place, without the ttl it had.
clear_cache_drops_ttl ==
  /\ cache' = [data |-> None, timestamp |-> None, ttl |-> 0]
  /\ cleared' = TRUE
  /\ UNCHANGED <<clock, pc, call, crawlVars, results, doc, source, requests, valid_at_call>>

\* clear_cache leaving an empty list in place of the records.
clear_cache_empty_list ==
  /\ cache' = [cache EXCEPT !.data = Some(<<>>), !.timestamp = None]
  /\ cleared' = TRUE
  /\ UNCHANGED <<clock, pc, call, crawlVars, results, doc, source, requests, valid_at_call>>

clear_cache ==
  /\ cache' = [cache EXCEPT !.data = None, !.timestamp = None]
  /\ cleared' = TRUE
  /\ UNCHANGED <<clock, pc, call, crawlVars, results, doc, source, requests, valid_at_call>>

Tick ==
  /\ \E d \in TickSteps :
       /\ clock + d <= MaxClock
       /\ clock' = clock + d
  /\ UNCHANGED <<cache, pc, call, crawlVars, results, doc, source, requests, valid_at_call, cleared>>

\* ------------------------------------------------------------ the queries
\* The cache check without the use_cache flag.
UsesCache_ignores_flag(c) == is_cache_valid(cache, clock)

\* The cache check with the flag negated.
UsesCache_negated_flag(c) == ~c.use_cache /\ is_cache_valid(cache, clock)

\* line 172 (240, 296, 351): `use_cache and is_cache_valid()`
UsesCache(c) == c.use_cache /\ is_cache_valid(cache, clock)

\* Calls are numbered in the order they arrive.
Arrives(t) == pc[t] = "idle" /\ \A u \in Tasks : u < t => pc[u] # "idle"

\* A query whose cache check succeeds runs to its return without an await.
\* `results` is the cached list itself, so it ends as the cache ends.
QueryHit(t, c) ==
  /\ Arrives(t)
  /\ UsesCache(c)
  /\ call' = [call EXCEPT ![t] = c]
  /\ valid_at_call' = [valid_at_call EXCEPT ![t] = is_cache_valid(cache, clock)]
  /\ results' = [results EXCEPT ![t] = Val(SortedInPlace(cache, c).data)]
  /\ source' = [source EXCEPT ![t] = "cache"]
  /\ cache' = SortedInPlace(cache, c)
  /\ doc' = [doc EXCEPT ![t] = Some(QueryDoc(c, Val(cache.data), clock))]
  /\ pc' = [pc EXCEPT ![t] = "returned"]
  /\ cleared' = FALSE
  /\ UNCHANGED <<clock, crawlVars, requests>>

\* Otherwise it calls crawl_marathons_fast(..., max_concurrent=10), which issues
\* the listing GET and suspends.
QueryMiss(t, c) ==
  /\ Arrives(t)
  /\ ~UsesCache(c)
  /\ call' = [call EXCEPT ![t] = c]
  /\ valid_at_call' = [valid_at_call EXCEPT ![t] = is_cache_valid(cache, clock)]
  /\ max_concurrent' = [max_concurrent EXCEPT ![t] = 10]
  /\ requests' = [requests EXCEPT ![t] = 1]
  /\ pc' = [pc EXCEPT ![t] = "listing"]
  /\ cleared' = FALSE
  /\ UNCHANGED <<cache, clock, marathon_links, detail_urls, fetch, semaphore, results, doc, source>>

\* The caller's code after `await crawl_marathons_fast(...)` returns all_marathons:
\* lines 180-223, 248-279, 304-334, 359-380.  A direct call just keeps the list.
AfterCrawl(t, all_marathons) ==
  LET c == call[t]
      stored == PutIfAny(cache, all_marathons, clock)
  IN /\ source' = [source EXCEPT ![t] = "crawl"]
     /\ pc' = [pc EXCEPT ![t] = "returned"]
     /\ IF c.op = "crawl_marathons_fast"
        THEN /\ results' = [results EXCEPT ![t] = all_marathons]
             /\ cache' = cache
             /\ doc' = doc
        ELSE IF c.op = "search_marathons" /\ all_marathons = <<>>
        THEN /\ results' = [results EXCEPT ![t] = all_marathons]
             /\ cache' = cache
             /\ doc' = [doc EXCEPT ![t] = Some(SearchFailureDoc)]
        ELSE IF all_marathons = <<>>
        THEN /\ results' = [results EXCEPT ![t] = all_marathons]
             /\ cache' = stored
             /\ doc' = [doc EXCEPT ![t] = Some(QueryDoc(c, all_marathons, clock))]
        ELSE /\ results' = [results EXCEPT ![t] = Val(SortedInPlace(stored, c).data)]
             /\ cache' = SortedInPlace(stored, c)
             /\ doc' = [doc EXCEPT ![t] = Some(QueryDoc(c, all_marathons, clock))]

\* ------------------------------------------------------------ crawl_marathons_fast
\* lines 91-95: keep the hrefs that are non-empty, name a detail page and were
\* not kept already, in the order of the page.
\* Every candidate href kept, seen before or not.
CandidateUrls_keeps_duplicates(links) ==
  SelectSeq(links, LAMBDA href : href # "" /\ IsRaceDetail(href))

RECURSIVE CandidateUrls(_)
CandidateUrls(links) ==
  IF links = <<>> THEN <<>>
  ELSE LET before == CandidateUrls(SubSeq(links, 1, Len(links) - 1))
           href == links[Len(links)]
       IN IF href # "" /\ IsRaceDetail(href) /\ \A i \in 1..Len(before) : before[i] # href
          THEN Append(before, href)
          ELSE before

\* gather without return_exceptions and a fetch that raises: one failure
\* loses every record.
Successes_all_or_nothing(fs) ==
  LET rec(f) == Val(f.result)
  IN IF \E i \in 1..Len(fs) : IsNone(fs[i].result) THEN <<>> ELSE MapSeq(fs, rec)

\* line 112: [r for r in results if r and not isinstance(r, Exception)], in the
\* order of the tasks, which is the order gather returns.
Successes(fs) ==
  LET ok(f) == ~IsNone(f.result)
      rec(f) == Val(f.result)
  IN MapSeq(Filter(fs, ok), rec)

InFlight(t) == Cardinality({i \in 1..Len(fetch[t]) : fetch[t][i].st = "inflight"})
\* A join that ends with the first task that ends.
AllDone_first_completed(t) == \E i \in 1..Len(fetch[t]) : fetch[t][i].st = "done"

\* asyncio.gather resumes its caller when every task has ended
AllDone(t) == \A i \in 1..Len(fetch[t]) : fetch[t][i].st = "done"

ResetCrawl(t) ==
  /\ max_concurrent' = [max_concurrent EXCEPT ![t] = 0]
  /\ marathon_links' = [marathon_links EXCEPT ![t] = <<>>]
  /\ detail_urls' = [detail_urls EXCEPT ![t] = <<>>]
  /\ fetch' = [fetch EXCEPT ![t] = <<>>]
  /\ semaphore' = [semaphore EXCEPT ![t] = 0]

\* An exception that no `except` clause of the crawl catches leaves the handler.
Raise(t) ==
  /\ pc' = [pc EXCEPT ![t] = "raised"]
  /\ UNCHANGED <<cache, results, doc, source>>

\* A crawl that handles the status error only.
CrawlCatches_status_only(failure) == failure = "http_status"

\* lines 114-117: `except httpx.HTTPStatusError` takes the status error and
\* `except Exception` every other one.
CrawlCatches(failure) == failure = "http_status" \/ failure \in ListingFailures

\* The listing GET raises (status, network, timeout): lines 114-119 return [].
ListingFails(t) ==
  /\ pc[t] = "listing"
  /\ \E failure \in ListingFailures :
       IF CrawlCatches(failure) THEN AfterCrawl(t, <<>>) ELSE Raise(t)
  /\ ResetCrawl(t)
  /\ UNCHANGED <<clock, call, requests, valid_at_call, cleared>>

\* The listing page has no candidate link: lines 97-99 return [].
ListingEmptyOn(t, pages) ==
  /\ pc[t] = "listing"
  /\ \E links \in pages :
       /\ CandidateUrls(links) = <<>>
       /\ AfterCrawl(t, <<>>)
  /\ ResetCrawl(t)
  /\ UNCHANGED <<clock, call, requests, valid_at_call, cleared>>

ListingEmpty(t) == ListingEmptyOn(t, ListingPages(call[t]))

\* The listing page has candidates: lines 102-110 create the gate and one task per
\* candidate, and gather suspends the crawl.
ListingFanOutOn(t, pages) ==
  /\ pc[t] = "listing"
  /\ \E links \in pages :
       /\ CandidateUrls(links) # <<>>
       /\ marathon_links' = [marathon_links EXCEPT ![t] = links]
       /\ detail_urls' = [detail_urls EXCEPT ![t] = CandidateUrls(links)]
       /\ fetch' = [fetch EXCEPT ![t] =
                      [i \in 1..Len(CandidateUrls(links)) |->
                         [st |-> "waiting", result |-> None]]]
  /\ semaphore' = [semaphore EXCEPT ![t] = max_concurrent[t]]
  /\ pc' = [pc EXCEPT ![t] = "gather"]
  /\ UNCHANGED <<cache, clock, call, max_concurrent, results, doc, source, requests, valid_at_call, cleared>>

ListingFanOut(t) == ListingFanOutOn(t, ListingPages(call[t]))

\* A gate that lets one task too many through.
GateOpen_off_by_one(t) == semaphore[t] >= 0

\* asyncio.Semaphore.acquire returns at once only while the counter is positive
GateOpen(t) == semaphore[t] > 0

\* line 105: a task passes the gate when a slot is free, the tasks in the order
\* they were created, and issues its detail GET (line 26).
Acquire(t) ==
  /\ pc[t] = "gather"
  /\ GateOpen(t)
  /\ \E i \in 1..Len(fetch[t]) :
       /\ fetch[t][i].st = "waiting"
       /\ \A j \in 1..(i - 1) : fetch[t][j].st # "waiting"
       /\ fetch' = [fetch EXCEPT ![t][i].st = "inflight"]
  /\ semaphore' = [semaphore EXCEPT ![t] = @ - 1]
  /\ requests' = [requests EXCEPT ![t] = @ + 1]
  /\ UNCHANGED <<cache, clock, pc, call, max_concurrent, marathon_links, detail_urls, results, doc, source, valid_at_call, cleared>>

\* A slot given back only by a fetch that brought a record.
Release_on_success_only(slots, result) == IF IsNone(result) THEN slots ELSE slots + 1

\* the exit of `async with semaphore` (lines 105-107) releases the slot,
\* whatever fetch_detail returned
Release(slots, result) == slots + 1

\* lines 106-107 and the exit of `async with`: the detail GET ends, fetch_detail
\* returns a record or None, and the slot is released.
DetailDone(t, i) ==
  /\ pc[t] = "gather"
  /\ i \in 1..Len(fetch[t])
  /\ fetch[t][i].st = "inflight"
  /\ \E response \in DetailResponses :
       LET result == fetch_detail(detail_urls[t][i], response)
       IN /\ fetch' = [fetch EXCEPT ![t][i] = [st |-> "done", result |-> result]]
          /\ semaphore' = [semaphore EXCEPT ![t] = Release(@, result)]
  /\ UNCHANGED <<cache, clock, pc, call, max_concurrent, marathon_links, detail_urls, results, doc, source, requests, valid_at_call, cleared>>

\* line 110: gather resumes the crawl when every task has ended; lines 112-119
\* return the records, and the caller goes on.
GatherDone(t) ==
  /\ pc[t] = "gather"
  /\ AllDone(t)
  /\ AfterCrawl(t, Successes(fetch[t]))
  /\ ResetCrawl(t)
  /\ UNCHANGED <<clock, call, requests, valid_at_call, cleared>>

\* ------------------------------------------------------------ specifications
Next ==
  \/ \E t \in Tasks, c \in QueryCalls : QueryHit(t, c)
  \/ \E t \in Tasks, c \in QueryCalls : QueryMiss(t, c)
  \/ \E t \in Tasks : ListingFails(t)
  \/ \E t \in Tasks : ListingEmpty(t)
  \/ \E t \in Tasks : ListingFanOut(t)
  \/ \E t \in Tasks : Acquire(t)
  \/ \E t \in Tasks, i \in 1..MaxCrawlLinks : DetailDone(t, i)
  \/ \E t \in Tasks : GatherDone(t)
  \/ clear_cache
  \/ Tick

Spec == Init /\ [][Next]_vars

\* One call of crawl_marathons_fast with any max_concurrent, nothing else running.
InitCrawl ==
  /\ cache = EmptyCache
  /\ clock = 0
  /\ pc = [t \in Tasks |-> IF t = 1 THEN "listing" ELSE "idle"]
  /\ call = [t \in Tasks |-> IF t = 1 THEN CrawlCall ELSE NoCall]
  /\ \E m \in 1..MaxGate : max_concurrent = [t \in Tasks |-> IF t = 1 THEN m ELSE 0]
  /\ marathon_links = [t \in Tasks |-> <<>>]
  /\ detail_urls = [t \in Tasks |-> <<>>]
  /\ fetch = [t \in Tasks |-> <<>>]
  /\ semaphore = [t \in Tasks |-> 0]
  /\ results = [t \in Tasks |-> <<>>]
  /\ doc = [t \in Tasks |-> None]
  /\ source = [t \in Tasks |-> "none"]
  /\ requests = [t \in Tasks |-> IF t = 1 THEN 1 ELSE 0]
  /\ valid_at_call = [t \in Tasks |-> FALSE]
  /\ cleared = FALSE

NextCrawl ==
  \/ ListingFails(1)
  \/ ListingEmpty(1)
  \/ ListingFanOut(1)
  \/ Acquire(1)
  \/ \E i \in 1..MaxCrawlLinks : DetailDone(1, i)
  \/ GatherDone(1)

SpecCrawl == InitCrawl /\ [][NextCrawl]_vars

\* One call on a fresh server, a query or crawl_marathons_fast itself, with a
\* listing page of up to MaxCrawlLinks anchors.
CallCrawl(t) ==
  /\ Arrives(t)
  /\ call' = [call EXCEPT ![t] = CrawlCall]
  /\ \E m \in 1..MaxGate : max_concurrent' = [max_concurrent EXCEPT ![t] = m]
  /\ requests' = [requests EXCEPT ![t] = 1]
  /\ pc' = [pc EXCEPT ![t] = "listing"]
  /\ UNCHANGED <<cache, clock, marathon_links, detail_urls, fetch, semaphore, results, doc, source, valid_at_call, cleared>>

NextOne ==
  \/ \E c \in QueryCalls : QueryMiss(1, c)
  \/ CallCrawl(1)
  \/ ListingFails(1)
  \/ ListingEmptyOn(1, CrawlListings)
  \/ ListingFanOutOn(1, CrawlListings)
  \/ Acquire(1)
  \/ \E i \in 1..MaxCrawlLinks : DetailDone(1, i)
  \/ GatherDone(1)

SpecOne == Init /\ [][NextOne]_vars

\* A crawl with a small gate over a page that lists every detail page once,
\* while clear_cache is called and a query is served.  The event loop runs
\* every coroutine that can go on, and every GET ends.
LiveListings == {<<"/raceDetail/1", "/raceDetail/2", "/raceDetail/3">>}
LivePages(c) == IF c.op = "crawl_marathons_fast" THEN LiveListings ELSE QueryListings
LiveCalls ==
  {c \in QueryCalls : c.op = "search_marathons" /\ ~c.use_cache /\ c.region = ""}

CrawlStep(t) ==
  \/ ListingFails(t)
  \/ ListingEmptyOn(t, LivePages(call[t]))
  \/ ListingFanOutOn(t, LivePages(call[t]))
  \/ Acquire(t)
  \/ \E i \in 1..Cardinality(DetailHrefs) : DetailDone(t, i)
  \/ GatherDone(t)

NextLive ==
  \/ \E t \in Tasks : CrawlStep(t)
  \/ \E c \in LiveCalls : QueryMiss(2, c)
  \/ clear_cache

Fairness == \A t \in Tasks : WF_vars(CrawlStep(t))

SpecLive == InitCrawl /\ [][NextLive]_vars /\ Fairness

\* The queries as functions of the cached list: the cache holds what a crawl of
\* up to MaxCached detail pages stored, and every call is answered from it.
CachedUrl(i) ==
  CASE i = 1 -> "/raceDetail/1" [] i = 2 -> "/raceDetail/2"
    [] i = 3 -> "/raceDetail/3" [] i = 4 -> "/raceDetail/4"

CachedLists ==
  { [i \in 1..Len(ps) |-> Val(fetch_detail(CachedUrl(i), [kind |-> "ok", race_detail |-> Some(ps[i])]))]
      : ps \in SeqsUpTo(CachedPayloads, MaxCached) \ {<<>>} }

CachedCalls ==
  {c \in QueryCalls : c.use_cache}
    \cup { [NoCall EXCEPT !.op = "search_marathons", !.date = "2025-11"],
           [NoCall EXCEPT !.op = "search_marathons", !.only_accepting = TRUE] }

InitQuery ==
  /\ \E rs \in CachedLists : cache = StoreCache(EmptyCache, rs, 0)
  /\ clock = 0
  /\ pc = [t \in Tasks |-> "idle"]
  /\ call = [t \in Tasks |-> NoCall]
  /\ max_concurrent = [t \in Tasks |-> 0]
  /\ marathon_links = [t \in Tasks |-> <<>>]
  /\ detail_urls = [t \in Tasks |-> <<>>]
  /\ fetch = [t \in Tasks |-> <<>>]
  /\ semaphore = [t \in Tasks |-> 0]
  /\ results = [t \in Tasks |-> <<>>]
  /\ doc = [t \in Tasks |-> None]
  /\ source = [t \in Tasks |-> "none"]
  /\ requests = [t \in Tasks |-> 0]
  /\ valid_at_call = [t \in Tasks |-> FALSE]
  /\ cleared = FALSE

NextQuery ==
  \/ \E t \in Tasks, c \in CachedCalls : QueryHit(t, c)
  \/ Tick

SpecQuery == InitQuery /\ [][NextQuery]_vars

\* ------------------------------------------------------------ properties
QueryOps ==
  {"search_marathons", "get_marathon_by_name", "get_upcoming_marathons",
   "get_marathons_by_track"}

IsQuery(t) == call[t].op \in QueryOps
Crawling(t) == pc[t] \in {"listing", "gather"}

\* Two lists hold the same records, each as often.
SameRecords(a, b) ==
  /\ Len(a) = Len(b)
  /\ \A i \in 1..Len(a) :
       Cardinality({j \in 1..Len(a) : a[j] = a[i]})
         = Cardinality({j \in 1..Len(b) : b[j] = a[i]})

\* The document a returned query must have produced from the list `rs`.
AnswerFrom(c, rs, now) ==
  IF c.op = "search_marathons" /\ rs = <<>> THEN SearchFailureDoc ELSE QueryDoc(c, rs, now)

\* C1: in every reachable state the cached records and the fetch timestamp are
\* both present or both absent.
CacheFieldsTogether == IsNone(cache.data) <=> IsNone(cache.timestamp)

\* C1 witness: a crawl that was in flight across a clear_cache has stored its
\* records while another call is still crawling.
CacheFieldsTogetherReached ==
  /\ cleared
  /\ ~IsNone(cache.data) /\ ~IsNone(cache.timestamp)
  /\ \E t \in Tasks : Crawling(t)

\* C2: when a query's crawl returns no record while the cache holds an entry,
\* the cached records and the timestamp stay what they were.
EmptyCrawlKeepsCache ==
  [][\A t \in Tasks :
       (/\ Crawling(t) /\ pc'[t] = "returned" /\ IsQuery(t)
        /\ results'[t] = <<>>
        /\ ~IsNone(cache.data))
       => (cache'.data = cache.data /\ cache'.timestamp = cache.timestamp)]_vars

\* C2 witness: a query that crawled because the ttl had run out got nothing, and
\* the expired entry is still in the cache.
EmptyCrawlKeepsCacheReached ==
  \E t \in Tasks :
    /\ pc[t] = "returned" /\ IsQuery(t) /\ call[t].use_cache
    /\ call[t].op # "search_marathons"
    /\ source[t] = "crawl" /\ results[t] = <<>>
    /\ ~IsNone(cache.data) /\ Val(cache.data) # <<>>
    /\ clock - Val(cache.timestamp) >= ttl

\* C3: is_cache_valid() is true exactly when an entry is present and less than
\* 3600 seconds have passed since its timestamp.
CacheValidWithinTtl ==
  /\ (IsNone(cache.data) \/ IsNone(cache.timestamp)) => ~is_cache_valid(cache, clock)
  /\ (~IsNone(cache.data) /\ ~IsNone(cache.timestamp))
       => (is_cache_valid(cache, clock) <=> clock - Val(cache.timestamp) < 3600)
  /\ \A t \in Tasks :
       (/\ pc[t] = "returned" /\ IsQuery(t) /\ source[t] = "crawl" /\ results[t] # <<>>
        /\ cache.timestamp = Some(clock) /\ ~IsNone(cache.data))
       => is_cache_valid(cache, clock)

\* C3 witness: an entry exactly 3600 seconds old.
CacheValidWithinTtlReached ==
  /\ ~IsNone(cache.data) /\ ~IsNone(cache.timestamp)
  /\ clock - Val(cache.timestamp) = 3600

\* C4: the first query with use_cache=true that starts after clear_cache has
\* returned launches a crawl and does not answer from the cache.  (Violated: a
\* crawl in flight across the clear_cache stores its records afterwards.)
ClearForcesRecrawl ==
  [][\A t \in Tasks :
       (cleared /\ pc[t] = "idle" /\ pc'[t] # "idle" /\ call'[t].use_cache)
       => (pc'[t] = "listing" /\ source'[t] # "cache")]_vars

\* C5: a clear_cache step ends with both fields absent, is_cache_valid() false
\* and the ttl it found.
ClearCacheEmpties ==
  [][clear_cache
       => (/\ IsNone(cache'.data) /\ IsNone(cache'.timestamp)
           /\ ~is_cache_valid(cache', clock')
           /\ cache'.ttl = cache.ttl /\ cache'.ttl = 3600)]_vars

\* C5 witness: clear_cache has emptied a cache that a query had filled less
\* than ttl seconds before.
ClearCacheEmptiesReached ==
  /\ cleared /\ IsNone(cache.data) /\ IsNone(cache.timestamp)
  /\ clock < ttl
  /\ \E t \in Tasks :
       pc[t] = "returned" /\ IsQuery(t) /\ source[t] = "crawl" /\ results[t] # <<>>

\* C6: a query called with use_cache=false issues the listing request, never
\* binds `results` to the cached list, and answers from what its crawl returned.
NoCacheFlagCrawls ==
  \A t \in Tasks :
    (IsQuery(t) /\ ~call[t].use_cache)
    => (/\ source[t] # "cache"
        /\ requests[t] >= 1
        /\ pc[t] = "returned"
             => (source[t] = "crawl"
                 /\ doc[t] = Some(AnswerFrom(call[t], results[t], clock))))

\* C6 witness: such a query arrived while the cache was valid and has returned
\* the records of its own crawl.
NoCacheFlagCrawlsReached ==
  \E t \in Tasks :
    /\ pc[t] = "returned" /\ IsQuery(t) /\ ~call[t].use_cache
    /\ valid_at_call[t]
    /\ source[t] = "crawl" /\ results[t] # <<>>

\* C7: a query called with use_cache=true while is_cache_valid() is true issues
\* no request and answers from the cached list.
ValidCacheNoCrawl ==
  \A t \in Tasks :
    (IsQuery(t) /\ call[t].use_cache /\ valid_at_call[t])
    => (/\ pc[t] = "returned"
        /\ source[t] = "cache"
        /\ requests[t] = 0
        /\ fetch[t] = <<>>
        /\ doc[t] = Some(QueryDoc(call[t], results[t], clock)))

\* C7 witness: a query answered from the cache.
ValidCacheNoCrawlReached ==
  \E t \in Tasks :
    /\ pc[t] = "returned" /\ IsQuery(t) /\ call[t].use_cache /\ valid_at_call[t]
    /\ source[t] = "cache" /\ requests[t] = 0

\* C8: within one crawl at most max_concurrent detail fetches are in flight.
GateCap ==
  \A t \in Tasks :
    /\ InFlight(t) <= max_concurrent[t]
    /\ InFlight(t) <= Len(detail_urls[t])

\* C8 witness: the gate is full, a candidate waits, and an earlier fetch failed.
GateCapReached ==
  /\ pc[1] = "gather"
  /\ InFlight(1) = max_concurrent[1]
  /\ \E i \in 1..Len(fetch[1]) : fetch[1][i].st = "waiting"
  /\ \E i \in 1..Len(fetch[1]) : fetch[1][i].st = "done" /\ IsNone(fetch[1][i].result)

\* C9: the end of one detail fetch leaves every sibling as it was, and the crawl
\* returns one record for each candidate whose fetch succeeded and nothing else.
FailuresAreIndependent ==
  [][\A t \in Tasks :
       /\ \A i \in 1..Len(fetch[t]) :
            (pc'[t] = "gather" /\ fetch[t][i].st = "inflight" /\ fetch'[t][i].st = "done")
            => \A j \in 1..Len(fetch[t]) : j # i => fetch'[t][j] = fetch[t][j]
       /\ (pc[t] = "gather" /\ pc'[t] = "returned")
            => LET ok == {i \in 1..Len(fetch[t]) : ~IsNone(fetch[t][i].result)}
               IN /\ Len(results'[t]) = Cardinality(ok)
                  /\ \A i \in ok :
                       \E k \in 1..Len(results'[t]) :
                         /\ results'[t][k] = Val(fetch[t][i].result)
                         /\ results'[t][k].url = detail_urls[t][i]]_vars

\* C9 witness: two candidates were fetched, one failed, one record came back.
FailuresAreIndependentReached ==
  /\ pc[1] = "returned"
  /\ requests[1] = 3
  /\ Len(results[1]) = 1

\* C10: a query that returns from a crawl with records leaves the cache holding
\* exactly those records, stamped with the time of that step; any other step
\* that touches the cache clears it or reorders its records.
LastStoreWins ==
  [][/\ \A t \in Tasks :
          (pc[t] = "gather" /\ pc'[t] = "returned" /\ IsQuery(t)
           /\ \E i \in 1..Len(fetch[t]) : ~IsNone(fetch[t][i].result))
          => LET ok == {i \in 1..Len(fetch[t]) : ~IsNone(fetch[t][i].result)}
             IN /\ ~IsNone(cache'.data)
                /\ Len(Val(cache'.data)) = Cardinality(ok)
                /\ \A i \in ok :
                     \E k \in 1..Len(Val(cache'.data)) :
                       Val(cache'.data)[k] = Val(fetch[t][i].result)
                /\ cache'.timestamp = Some(clock)
     /\ (cache' # cache)
          => \/ \E t \in Tasks :
                  /\ pc[t] = "gather" /\ pc'[t] = "returned"
                  /\ \E i \in 1..Len(fetch[t]) : ~IsNone(fetch[t][i].result)
             \/ IsNone(cache'.data) /\ IsNone(cache'.timestamp)
             \/ /\ ~IsNone(cache.data) /\ ~IsNone(cache'.data)
                /\ SameRecords(Val(cache'.data), Val(cache.data))
                /\ cache'.timestamp = cache.timestamp]_vars

\* C10 witness: two queries crawled at the same time and both brought records;
\* the one that arrived first stored last, and its records are the cached ones.
LastStoreWinsReached ==
  /\ pc[1] = "returned" /\ pc[2] = "returned"
  /\ source[1] = "crawl" /\ source[2] = "crawl"
  /\ call[2].use_cache
  /\ results[1] # <<>> /\ results[2] # <<>>
  /\ ~SameRecords(results[1], results[2])
  /\ clock = 0
  /\ ~IsNone(cache.data)
  /\ SameRecords(Val(cache.data), results[1])

\* C11: a query answered from the cache leaves the cache entry as it was: the
\* same records in the same order, no derived field stored, the same timestamp.
CacheHitKeepsCache ==
  [][\A t \in Tasks :
       (pc[t] = "idle" /\ pc'[t] = "returned" /\ source'[t] = "cache")
         => cache' = cache]_vars

\* The step in which call t is answered from the cache.
AnsweredFromCache(t) == pc[t] = "idle" /\ pc'[t] = "returned" /\ source'[t] = "cache"

\* Where the record of a detail page stands in a list.
PlaceOf(xs, url) == CHOOSE i \in 1..Len(xs) : xs[i].url = url

\* C12: the records of a search_marathons or get_marathons_by_track document
\* are ascending by event date string, records with equal dates keep the order
\* they had in the list the query was given, and every record with an empty
\* event date comes after every record with a non-empty one.
DateOrderEmptyLast ==
  [][\A t \in Tasks :
       (AnsweredFromCache(t)
          /\ call'[t].op \in {"search_marathons", "get_marathons_by_track"})
         => LET ms == Val(doc'[t]).marathons
                given == Val(cache.data)
            IN \A i, j \in 1..Len(ms) :
                 i < j =>
                   /\ ~(ms[i].date = "" /\ ms[j].date # "")
                   /\ (ms[i].date # "" /\ ms[j].date # "")
                        => ~StrLess(ms[j].date, ms[i].date)
                   /\ ms[i].date = ms[j].date
                        => PlaceOf(given, ms[i].url) < PlaceOf(given, ms[j].url)]_vars

\* The queries that return a filtered list of records.
ListOps == {"search_marathons", "get_upcoming_marathons", "get_marathons_by_track"}

\* Call t has returned the document of a list query that had data to filter.
FilteredData(t) ==
  pc[t] = "returned" /\ call[t].op \in ListOps /\ results[t] # <<>>

\* C13: when data was obtained and no record passes the filters, the document
\* has success true and total 0; success is false only when no data was obtained.
EmptyResultIsSuccess ==
  \A t \in Tasks :
    FilteredData(t) =>
      /\ Val(doc[t]).success
      /\ Val(doc[t]).marathons = <<>> => Val(doc[t]).total = 0

\* C13, as the code has it: when data was obtained and no record passes the
\* filters, the document is an ordinary one (no error entry) with total 0 and
\* an empty list, and its success flag is false; success is true exactly when
\* at least one record passes.
EmptyResultIsNotSuccess ==
  \A t \in Tasks :
    FilteredData(t) =>
      /\ Val(doc[t]).total = Len(Val(doc[t]).marathons)
      /\ Val(doc[t]).success <=> Val(doc[t]).total > 0
      /\ "error" \notin DOMAIN Val(doc[t])

EmptyResultIsNotSuccessReached ==
  \E t \in Tasks :
    /\ FilteredData(t)
    /\ call[t].op = "search_marathons"
    /\ Val(doc[t]).marathons = <<>>
    /\ Val(doc[t]).total = 0
    /\ ~Val(doc[t]).success

\* C14: no failure of the listing GET or of a detail fetch raises: the call never
\* ends in an exception, a query that returns has a document, and a listing
\* that fails or has no candidate ends the crawl with the empty list and no
\* detail fetch launched.
NoFailureRaises ==
  [][\A t \in Tasks :
       /\ pc'[t] # "raised"
       /\ (pc'[t] = "returned" /\ call'[t].op \in QueryOps) => ~IsNone(doc'[t])
       /\ (pc[t] = "listing" /\ pc'[t] = "returned")
            => /\ results'[t] = <<>>
               /\ fetch[t] = <<>> /\ fetch'[t] = <<>>
               /\ requests'[t] = 1]_vars

NoFailureRaisesReached ==
  \E t \in Tasks :
    /\ pc[t] = "returned"
    /\ call[t].op = "get_upcoming_marathons"
    /\ source[t] = "crawl"
    /\ requests[t] = 1
    /\ results[t] = <<>>
    /\ ~IsNone(doc[t])

\* The records of the document call t returned, with their derived fields.
DocRecords(t) ==
  LET d == Val(doc[t])
  IN IF call[t].op \in ListOps THEN {d.marathons[i] : i \in 1..Len(d.marathons)}
     ELSE IF call[t].op = "get_marathon_by_name" /\ d.success THEN {Val(d.marathon)}
     ELSE {}

\* The first day of the run, as the site writes dates.
StartDate == "2025-11-01"

\* C15: a record is reported as accepting applications exactly when its
\* application end date is non-empty, parses as a date and is not before today
\* (dates written YYYY-MM-DD are ordered as their strings are); an end date
\* that is empty, unparsable or before today gives false.
AcceptingIffEndNotPast ==
  \A t \in Tasks :
    (pc[t] = "returned" /\ ~IsNone(doc[t])) =>
      \A m \in DocRecords(t) :
        m.accepting <=>
          /\ m.app_end # ""
          /\ ~IsNone(ParseDate(m.app_end))
          /\ ~StrLess(m.app_end, StartDate)

AcceptingIffEndNotPastReached ==
  \E t \in Tasks :
    /\ pc[t] = "returned" /\ call[t].op = "search_marathons"
    /\ clock > 0
    /\ \E m \in DocRecords(t) : m.app_end = StartDate /\ m.accepting
    /\ \E m \in DocRecords(t) : m.app_end = "2025-01-01" /\ ~m.accepting
    /\ \E m \in DocRecords(t) : m.app_end \in {"", "soon"} /\ ~m.accepting

\* The days from the first day of the run to the dates the site serves.
DaysFromStart(date) ==
  CASE date = "2025-11-01" -> Some(0)
    [] date = "2025-11-05" -> Some(4)
    [] date = "2025-11-08" -> Some(7)
    [] date = "2025-11-10" -> Some(9)
    [] date = "2025-01-01" -> Some(0 - 304)
    [] OTHER -> None

\* C16: get_upcoming_marathons(days) returns exactly the records whose event
\* date parses and lies in [today, today + days], both ends included, each with
\* its D-day (event date minus today, in days), ascending by D-day; records
\* with an empty or unparsable date are left out.
UpcomingWindow ==
  \A t \in Tasks :
    (pc[t] = "returned" /\ call[t].op = "get_upcoming_marathons" /\ clock < SecondsPerDay) =>
      LET ms == Val(doc[t]).marathons
          due(r) == /\ ~IsNone(DaysFromStart(r.date))
                    /\ Val(DaysFromStart(r.date)) >= 0
                    /\ Val(DaysFromStart(r.date)) <= call[t].days
      IN /\ {ms[i].url : i \in 1..Len(ms)}
              = {results[t][k].url : k \in {n \in 1..Len(results[t]) : due(results[t][n])}}
         /\ Len(ms) = Cardinality({n \in 1..Len(results[t]) : due(results[t][n])})
         /\ \A i \in 1..Len(ms) : ms[i].d_day = Val(DaysFromStart(ms[i].date))
         /\ \A i, j \in 1..Len(ms) : i < j => ms[i].d_day <= ms[j].d_day

UpcomingWindowReached ==
  \E t \in Tasks :
    /\ pc[t] = "returned" /\ call[t].op = "get_upcoming_marathons" /\ call[t].days = 7
    /\ \E k \in 1..Len(results[t]) : results[t][k].date = "2025-11-10"
    /\ \E k \in 1..Len(results[t]) : results[t][k].date \in {"", "soon"}
    /\ Val(doc[t]).total = 1
    /\ Val(doc[t]).marathons[1].date = "2025-11-05"
    /\ Val(doc[t]).marathons[1].d_day = 4

\* Where an href first stands on the listing page.
FirstPlace(links, href) ==
  CHOOSE i \in 1..Len(links) : links[i] = href /\ \A j \in 1..(i - 1) : links[j] # href

\* C17: the candidates of a crawl are the distinct non-empty detail hrefs of
\* the listing page, each once, in the order of their first occurrence; every
\* candidate gets one fetch task and every admitted task has issued one GET, so
\* when all tasks are done each candidate was fetched exactly once.
OneFetchPerCandidate ==
  \A t \in Tasks :
    /\ pc[t] = "gather" =>
         LET links == marathon_links[t]
             urls == detail_urls[t]
         IN /\ \A i, j \in 1..Len(urls) : i # j => urls[i] # urls[j]
            /\ {urls[i] : i \in 1..Len(urls)}
                 = {links[k] : k \in 1..Len(links)} \cap DetailHrefs
            /\ \A i, j \in 1..Len(urls) :
                 i < j => FirstPlace(links, urls[i]) < FirstPlace(links, urls[j])
            /\ Len(fetch[t]) = Len(urls)
            /\ requests[t]
                 = 1 + Cardinality({i \in 1..Len(urls) : fetch[t][i].st # "waiting"})
            /\ \A i \in 1..Len(urls) :
                 ~IsNone(fetch[t][i].result) => Val(fetch[t][i].result).url = urls[i]
    /\ pc[t] = "returned" =>
         /\ Len(results[t]) <= requests[t] - 1
         /\ \A i, j \in 1..Len(results[t]) :
              i # j => results[t][i].url # results[t][j].url

OneFetchPerCandidateReached ==
  \E t \in Tasks :
    /\ pc[t] = "gather" /\ AllDone(t)
    /\ Len(marathon_links[t]) = 3
    /\ marathon_links[t][1] = marathon_links[t][3]
    /\ Len(detail_urls[t]) = 2
    /\ requests[t] = 3
    /\ Len(Successes(fetch[t])) = 2

\* C18: while a detail fetch of a crawl is in flight or waiting at the gate, the
\* crawl does not return: the call stays in the gather, no record reaches the
\* caller, no document is built, and the cache is not written.
FullBarrier ==
  [][\A t \in Tasks :
       (pc[t] = "gather" /\ \E i \in 1..Len(fetch[t]) : fetch[t][i].st # "done")
         => /\ pc'[t] = "gather"
            /\ results'[t] = <<>>
            /\ IsNone(doc'[t])
            /\ cache' = cache]_vars

FullBarrierReached ==
  \E t \in Tasks :
    /\ pc[t] = "gather" /\ call[t].op \in QueryOps
    /\ \E i \in 1..Len(fetch[t]) : fetch[t][i].st = "done" /\ ~IsNone(fetch[t][i].result)
    /\ \E i \in 1..Len(fetch[t]) : fetch[t][i].st = "inflight"
    /\ results[t] = <<>>
    /\ IsNone(cache.data)

\* C19: a candidate waiting at the gate is admitted, and a crawl that was
\* launched returns, with no fetch of it in flight, whatever its fetches
\* bring and whatever clear_cache and the other call do meanwhile.
CrawlCompletes ==
  /\ \A t \in Tasks, i \in 1..Cardinality(DetailHrefs) :
       (pc[t] = "gather" /\ i <= Len(fetch[t]) /\ fetch[t][i].st = "waiting")
         ~> (pc[t] = "gather" /\ i <= Len(fetch[t]) /\ fetch[t][i].st = "inflight")
  /\ \A t \in Tasks : Crawling(t) ~> (pc[t] = "returned" /\ InFlight(t) = 0)

CrawlCompletesReached ==
  /\ pc[1] = "returned" /\ pc[2] = "returned"
  /\ requests[1] = 1 + Cardinality(DetailHrefs)
  /\ Len(results[1]) = 1
  /\ cleared
  /\ InFlight(1) = 0

\* C20: the records of the cache are absent or a non-empty list, so a call
\* answered from the cache has at least one record to work on.
CacheNeverEmptyList ==
  /\ IsNone(cache.data) \/ Val(cache.data) # <<>>
  /\ \A t \in Tasks : source[t] = "cache" => results[t] # <<>>

CacheNeverEmptyListReached ==
  /\ ~IsNone(cache.data)
  /\ \E t, u \in Tasks :
       /\ pc[t] = "returned" /\ source[t] = "crawl" /\ Len(results[t]) = 1
       /\ call[t].op \in QueryOps
       /\ pc[u] = "returned" /\ source[u] = "cache" /\ results[u] = Val(cache.data)

====
